---- MODULE Spec2Model ----
(***************************************************************************)
(* Unicorn-Films: the video generation lifecycle (App.handleGenerate and   *)
(* geminiService.generateVideo), the scene store of App and the PromptForm *)
(* state that feeds a submission.                                          *)
(*                                                                         *)
(* Every await of the source is a suspension point: the part of a handler  *)
(* between two awaits is one action, and the backend's answer to a pending *)
(* call is the input of the action that resumes the handler.               *)
(***************************************************************************)
EXTENDS Integers, Sequences, FiniteSets, TLC

(* ---- bounds ---- *)
\* handleGenerate is invoked at most MaxReqs times in a behaviour
MaxReqs == 2
\* the backend answers "not done" to at most MaxNotDone status checks of one operation
MaxNotDone == 2
\* at most MaxAssets assets are ever added to the bin
MaxAssets == 2
\* the Director is sent at most MaxSends messages in a behaviour
MaxSends == 2

Reqs == 1..MaxReqs

(* ---- values ---- *)
\* selectedSceneId === null
NoScene == 0
\* an absent Video token
NoVideo == 0
\* operation.response.generatedVideos[0].video of the operation of invocation r
VideoOf(r) == 100 + r

TEXT_TO_VIDEO == "Text to Video"
FRAMES_TO_VIDEO == "Frames to Video"
REFERENCES_TO_VIDEO == "References to Video"
EXTEND_VIDEO == "Extend Video"
\* the modes the mode selector of PromptForm offers
SelectableModes == {TEXT_TO_VIDEO, FRAMES_TO_VIDEO, REFERENCES_TO_VIDEO}

\* the texts in the prompt textarea at a submit, as sequences of pieces of
\* text: blank or not
Prompts == {<<>>, <<"u">>}
\* the body of a media response: the video, or the error document of a refusal
MediaBody == "video"
ErrorBody == "error document"

\* selectedStyle === null
NoStyle == [id |-> "", promptInjection |-> ""]
\* some of HOLLYWOOD_STYLES
Styles == {[id |-> "blockbuster", promptInjection |-> "Cinematic lighting"],
           [id |-> "prestige", promptInjection |-> "A24 film aesthetic"]}
\* lightingLock === null
NoLighting == ""
\* some of the labels of the Atmosphere Lock
Lightings == {"Golden Hour", "Cyberpunk Neon"}
\* the prompts assets are generated from
AssetPrompts == {"hero", "villain"}
AssetIds == 1..MaxAssets

Sends == 1..MaxSends
\* the texts in the input field of the DirectorAssistant: empty, blank, a request
Inputs == {"", " ", "a chase scene"}
\* String.prototype.trim on these texts
Trim(t) == IF t = " " THEN "" ELSE t
\* the opening message of the Director and the message of the catch block of
\* handleSend, as sequences of pieces of text like every message text
Greeting == <<"What's the plan?">>
LostThought == <<"Sorry, I lost my train of thought.">>

(* ---- JSON texts and the values JSON.parse makes of them ---- *)

\* a field that holds a list, a field that holds a string where a list is
\* expected, and a field that is absent
List(items) == [kind |-> "array", items |-> items]
NotAList == [kind |-> "string", items |-> <<>>]
Absent == [kind |-> "absent", items |-> <<>>]

\* a parsed value, as far as the callers look into it: what kind of value it
\* is and, of an object, its type, whether it has a payload, the payload's
\* prompt, view and text, and its title, description, bpm, instruments and
\* ideas ("" and Absent where the field is absent)
Json(kind, type, hasPayload, prompt, view, text) ==
    [json |-> kind, type |-> type, hasPayload |-> hasPayload,
     prompt |-> prompt, view |-> view, text |-> text,
     title |-> "", description |-> "", bpm |-> "", instruments |-> Absent,
     ideas |-> Absent]
\* null, a string, an object with no type
JsonNull == Json("null", "", FALSE, "", "", "")
JsonString == Json("string", "", FALSE, "", "", "")
EmptyObject == Json("object", "", FALSE, "", "", "")
\* what JSON.parse throws
SyntaxError == Json("SyntaxError", "", FALSE, "", "", "")
\* no value yet
NoAction == Json("none", "", FALSE, "", "", "")

\* the markdown fence markers chatWithDirector removes, three backquotes each
FenceOpen == "[fence]json"
FenceClose == "[fence]"
\* JSON documents a reply can consist of
ChatDoc == "{\"type\":\"CHAT_RESPONSE\",\"payload\":{\"text\":\"Use a long take.\"}}"
ChatNoPayloadDoc == "{\"type\":\"CHAT_RESPONSE\"}"
AssetDoc == "{\"type\":\"GENERATE_ASSET\",\"payload\":{\"prompt\":\"hero\"}}"
PromptDoc == "{\"type\":\"UPDATE_PROMPT\",\"payload\":{\"prompt\":\"a chase at dawn\"}}"
ViewDoc == "{\"type\":\"SWITCH_VIEW\",\"payload\":{\"view\":\"storyboard\"}}"
ViewNoPayloadDoc == "{\"type\":\"SWITCH_VIEW\"}"
EmptyObjectDoc == "{}"
NullDoc == "null"
StringDoc == "\"cut\""
NotJson == "not valid json"
ScoreDoc == "{\"title\":\"Dust\",\"description\":\"slow strings\",\"bpm\":\"90\",\"instruments\":[\"Cello\"]}"
IdeasDoc == "{\"ideas\":[\"Wipe\",\"Match cut\",\"Drone shot\"]}"
IdeasStringDoc == "{\"ideas\":\"Wipe\"}"

\* JSON.parse of one of these pieces of text
ParseDoc(doc) ==
    CASE doc = ChatDoc -> Json("object", "CHAT_RESPONSE", TRUE, "", "", "Use a long take.")
      [] doc = ChatNoPayloadDoc -> Json("object", "CHAT_RESPONSE", FALSE, "", "", "")
      [] doc = AssetDoc -> Json("object", "GENERATE_ASSET", TRUE, "hero", "", "")
      [] doc = PromptDoc -> Json("object", "UPDATE_PROMPT", TRUE, "a chase at dawn", "", "")
      [] doc = ViewDoc -> Json("object", "SWITCH_VIEW", TRUE, "", "storyboard", "")
      [] doc = ViewNoPayloadDoc -> Json("object", "SWITCH_VIEW", FALSE, "", "", "")
      [] doc = EmptyObjectDoc -> EmptyObject
      [] doc = NullDoc -> JsonNull
      [] doc = StringDoc -> JsonString
      [] doc = ScoreDoc -> [EmptyObject EXCEPT !.title = "Dust", !.description = "slow strings",
                                              !.bpm = "90", !.instruments = List(<<"Cello">>)]
      [] doc = IdeasDoc -> [EmptyObject EXCEPT !.ideas = List(<<"Wipe", "Match cut", "Drone shot">>)]
      [] doc = IdeasStringDoc -> [EmptyObject EXCEPT !.ideas = NotAList]
      [] OTHER -> SyntaxError

\* JSON.parse of a text, a sequence of pieces: one document and nothing else
JSONparse(text) ==
    IF Len(text) = 1 THEN ParseDoc(text[1]) ELSE SyntaxError

\* response.text of the Director's backend: the empty text, text that is no
\* JSON, documents of every shape, a document within markdown fences
ReplyTexts ==
    {<<>>, <<NotJson>>, <<EmptyObjectDoc>>, <<NullDoc>>, <<StringDoc>>,
     <<ChatDoc>>, <<ChatNoPayloadDoc>>, <<AssetDoc>>, <<PromptDoc>>, <<ViewDoc>>,
     <<ViewNoPayloadDoc>>, <<FenceOpen, PromptDoc, FenceClose>>}
\* no reply yet, and the reply of a call that was rejected
NoReply == <<"(none)">>
Rejected == <<"(rejected)">>

\* the action of the catch block of chatWithDirector
ParseErrorAction ==
    Json("object", "CHAT_RESPONSE", TRUE, "", "",
         "I'm having trouble processing that request right now.")

VARIABLES
    aistudio,             \* window.aistudio is present
    showApiKeyDialog,
    appState,
    isPromptBarCollapsed,
    scenes,               \* sequence of Scene records
    selectedSceneId,
    selectedAssetIds,
    externalPrompt,       \* "" stands for null
    initialFormValues,
    form,                 \* the state of the mounted PromptForm
    nInvoked,             \* number of handleGenerate invocations so far
    pc,                   \* per invocation: where it is suspended
    params,               \* per invocation: the GenerateVideoParams it still reads
    sent,                 \* per invocation: the generateVideos request in flight
    log,                  \* per invocation: the calls made and the answers received
    assets,               \* sequence of Asset records, newest first
    nAssets,              \* number of assets created so far: the ids in use
    continuity,           \* the ContinuityProfile
    selectedStyle,
    prompt,               \* the text handleSubmit last read from the textarea
    finalPrompt,          \* the prompt handleSubmit last passed to onGenerate
    preparedExternalAssets, \* the ImageFiles of the selected assets, by asset id
    preparing,            \* the runs of prepare() that await their files
    reading,              \* the scenes a FileReader of handleExtend is reading
    extendScene,          \* the scene the last handleExtend that finished was for
    activeView,
    messages,             \* DirectorAssistant: the chat, a sequence of messages
    input,                \* DirectorAssistant: the text in the input field
    isThinking,
    nSends,               \* number of handleSend invocations that passed the blank check
    sendPc,               \* per send: where handleSend is suspended
    reply,                \* per send: the reply text of the backend
    action,               \* per send: what chatWithDirector returned
    sendLog,              \* per send: what handleSend did, in order
    imaging,              \* the sends whose GENERATE_ASSET awaits generateImage
    call,                 \* a call of a function of geminiService: its name and arguments
    result                \* what the call returned

keyVars == <<aistudio, showApiKeyDialog>>
\* the bin, the style and the continuity profile
studioVars == <<assets, nAssets, continuity, selectedStyle>>
composeVars == <<prompt, finalPrompt>>
\* the pending reads
readVars == <<preparing, reading, extendScene>>
\* the DirectorAssistant and what its actions wait for
directorVars == <<messages, input, isThinking, nSends, sendPc, reply, action, sendLog, imaging>>
serviceVars == <<call, result>>
\* what the studio view's handlers leave alone
assistVars == <<activeView, directorVars, serviceVars>>

vars == <<keyVars, appState, isPromptBarCollapsed, scenes, selectedSceneId, selectedAssetIds,
          externalPrompt, initialFormValues, form, nInvoked, pc, params, sent, log,
          studioVars, composeVars, readVars, preparedExternalAssets, assistVars>>

\* what the PromptForm widgets leave alone
appVars == <<keyVars, appState, isPromptBarCollapsed, scenes, selectedSceneId, selectedAssetIds,
             externalPrompt, initialFormValues, nInvoked, pc, params, sent, log,
             studioVars, composeVars, readVars, preparedExternalAssets, assistVars>>
\* what generateVideo leaves alone while it runs
stableVars == <<keyVars, appState, isPromptBarCollapsed, scenes, selectedSceneId, selectedAssetIds,
                externalPrompt, initialFormValues, form, nInvoked,
                studioVars, composeVars, readVars, preparedExternalAssets, assistVars>>
reqVars == <<nInvoked, pc, params, sent, log>>
\* what the bin, the StyleSelector and the ContinuityPanel leave alone
nonStudioVars == <<keyVars, appState, isPromptBarCollapsed, scenes, selectedSceneId,
                   selectedAssetIds, externalPrompt, initialFormValues, form, reqVars,
                   assistVars>>

(* ---- PromptForm ---- *)

\* initialFormValues === null
NullFormValues == [isNull |-> TRUE, mode |-> TEXT_TO_VIDEO, inputVideoObject |-> NoVideo]

\* the useState initialisers of PromptForm
InitialForm(iv) ==
    [generationMode |-> IF iv.isNull THEN TEXT_TO_VIDEO ELSE iv.mode,
     startFrame |-> FALSE,
     referenceImages |-> 0,
     inputVideoObject |-> IF iv.isNull THEN NoVideo ELSE iv.inputVideoObject]

\* effect on [initialValues]
SyncInitialValues(f, iv) ==
    IF iv.isNull THEN f
    ELSE [f EXCEPT !.generationMode = iv.mode, !.startFrame = FALSE,
                   !.referenceImages = 0, !.inputVideoObject = iv.inputVideoObject]

\* the form state kept while no PromptForm is mounted
NoForm == InitialForm(NullFormValues)

\* effect on [externalReferences], ext being the prepared files
SyncExternalReferences(f, ext) ==
    IF Len(ext) > 0
    THEN [f EXCEPT !.generationMode = REFERENCES_TO_VIDEO, !.referenceImages = Len(ext)]
    ELSE f

\* the PromptForm after a render of App: unmounted, mounted afresh (every
\* effect runs, in the order of the source), or kept with the effects whose
\* dependencies were set
RenderForm(f, wasMounted, isMounted, iv, ivSet, ext, extSet) ==
    IF ~isMounted THEN NoForm
    ELSE IF ~wasMounted
    THEN SyncExternalReferences(SyncInitialValues(InitialForm(iv), iv), ext)
    ELSE LET synced == IF ivSet THEN SyncInitialValues(f, iv) ELSE f
         IN  IF extSet THEN SyncExternalReferences(synced, ext) ELSE synced

\* the effect of App on [selectedAssetIds, assets], run after a render with the
\* assets as and the selection sel: no selected asset, no prepared file;
\* otherwise prepare() awaits the files of the selected assets
PrepareEffect(as, sel) ==
    LET selectedAssets == SelectSeq(as, LAMBDA a : \E i \in 1..Len(sel) : sel[i] = a.id)
    IN  IF Len(selectedAssets) = 0
        THEN /\ preparedExternalAssets' = <<>>
             /\ preparing' = preparing
        ELSE /\ preparing' = preparing \cup {[i \in 1..Len(selectedAssets) |-> selectedAssets[i].id]}
             /\ preparedExternalAssets' = preparedExternalAssets

\* Array.prototype.includes
Includes(s, e) == \E i \in 1..Len(s) : s[i] = e

\* lockedAssets.map(a => `Character Reference: ${a.prompt}`).join('. ')
RECURSIVE charDescriptions(_)
charDescriptions(locked) ==
    IF locked = <<>> THEN <<>>
    ELSE IF Len(locked) = 1 THEN <<"Character Reference: ", locked[1].prompt>>
    ELSE <<"Character Reference: ", locked[1].prompt, ". ">> \o charDescriptions(Tail(locked))

\* Compose, were the lighting sentence put before the character sentences
ComposeLightingFirst(text, style, cont, as) ==
    LET styled == IF style # NoStyle THEN <<style.promptInjection, " ">> \o text ELSE text
        lockedAssets == SelectSeq(as, LAMBDA a : Includes(cont.activeAssetIds, a.id))
        lit == IF cont.lightingLock # NoLighting
               THEN styled \o <<". ", "Lighting: ", cont.lightingLock, ".">>
               ELSE styled
    IN  IF Len(lockedAssets) > 0
        THEN lit \o <<". ">> \o charDescriptions(lockedAssets) \o <<".">>
        ELSE lit

\* the asset with this id, or the undefined a failed lookup gives
AssetOrUndefined(as, id) ==
    IF \E i \in 1..Len(as) : as[i].id = id
    THEN as[CHOOSE i \in 1..Len(as) : as[i].id = id]
    ELSE [id |-> id, prompt |-> "undefined"]

\* Compose, were the locked assets looked up id by id
ComposeLooksUpIds(text, style, cont, as) ==
    LET styled == IF style # NoStyle THEN <<style.promptInjection, " ">> \o text ELSE text
        lockedAssets == [i \in 1..Len(cont.activeAssetIds) |->
                            AssetOrUndefined(as, cont.activeAssetIds[i])]
        cast == IF Len(lockedAssets) > 0
                THEN styled \o <<". ">> \o charDescriptions(lockedAssets) \o <<".">>
                ELSE styled
    IN  IF cont.lightingLock # NoLighting
        THEN cast \o <<". ", "Lighting: ", cont.lightingLock, ".">>
        ELSE cast

\* finalPrompt of handleSubmit: the pieces of the text in their order
Compose(text, style, cont, as) ==
    LET styled == IF style # NoStyle THEN <<style.promptInjection, " ">> \o text ELSE text
        lockedAssets == SelectSeq(as, LAMBDA a : Includes(cont.activeAssetIds, a.id))
        cast == IF Len(lockedAssets) > 0
                THEN styled \o <<". ">> \o charDescriptions(lockedAssets) \o <<".">>
                ELSE styled
    IN  IF cont.lightingLock # NoLighting
        THEN cast \o <<". ", "Lighting: ", cont.lightingLock, ".">>
        ELSE cast

(* ---- generateVideo: the request it builds ---- *)

NoRequest == [variant |-> "none", image |-> FALSE, referenceImages |-> 0, video |-> NoVideo]

BuildRequest(p) ==
    IF p.mode = EXTEND_VIDEO /\ p.inputVideoObject # NoVideo
    THEN [variant |-> "extend", image |-> FALSE, referenceImages |-> 0,
          video |-> p.inputVideoObject]
    ELSE IF p.mode = REFERENCES_TO_VIDEO /\ p.referenceImages > 0
    THEN [variant |-> "references", image |-> FALSE,
          referenceImages |-> p.referenceImages, video |-> NoVideo]
    ELSE IF p.startFrame
    THEN [variant |-> "standard", image |-> TRUE, referenceImages |-> 0, video |-> NoVideo]
    ELSE [variant |-> "standard", image |-> FALSE, referenceImages |-> 0, video |-> NoVideo]

NoParams == [prompt |-> <<>>, mode |-> TEXT_TO_VIDEO, startFrame |-> FALSE,
             referenceImages |-> 0, inputVideoObject |-> NoVideo]

\* the object handleSubmit passes to onGenerate, text being the final prompt
SubmitParams(f, text) ==
    [prompt |-> text, mode |-> f.generationMode, startFrame |-> f.startFrame,
     referenceImages |-> f.referenceImages, inputVideoObject |-> f.inputVideoObject]

\* once generateVideos has answered the code reads params.prompt only
PromptOnly(p) == [NoParams EXCEPT !.prompt = p.prompt]

(* ---- generateVideo: the model, the resolution and the aspect ratio ---- *)

VEO_FAST == "veo-3.1-fast-generate-preview"
VEO == "veo-3.1-generate-preview"
\* the models, aspect ratios and resolutions the settings offer
Models == {VEO_FAST, VEO}
AspectRatios == {"16:9", "9:16"}
Resolutions == {"720p", "1080p"}

\* the parameters generateVideo can be called with
VideoParams ==
    [prompt : {<<"u">>}, mode : SelectableModes \cup {EXTEND_VIDEO}, startFrame : BOOLEAN,
     referenceImages : 0..2, inputVideoObject : {NoVideo, VideoOf(1)},
     model : Models, aspectRatio : AspectRatios, resolution : Resolutions]

\* RequestSettings, were the references branch to pass the parameters on
RequestSettingsFromParams(p) ==
    IF BuildRequest(p).variant = "extend"
    THEN [model |-> VEO, resolution |-> "720p", aspectRatio |-> p.aspectRatio]
    ELSE [model |-> p.model, resolution |-> p.resolution, aspectRatio |-> p.aspectRatio]

\* model, config.resolution and config.aspectRatio of the generateVideos
\* request, branch by branch
RequestSettings(p) ==
    IF BuildRequest(p).variant = "extend"
    THEN [model |-> VEO, resolution |-> "720p", aspectRatio |-> p.aspectRatio]
    ELSE IF BuildRequest(p).variant = "references"
    THEN [model |-> VEO, resolution |-> "720p", aspectRatio |-> "16:9"]
    ELSE [model |-> IF p.model # "" THEN p.model ELSE VEO_FAST,
          resolution |-> p.resolution, aspectRatio |-> p.aspectRatio]

(* ---- generateStoryboardDescription ---- *)

\* the positions the storyboard gives an item
Xs == {-50, 0, 100, 149, 150, 151, 200, 299, 300, 301, 350, 400}
Ys == {-50, 0, 100, 149, 150, 151, 200, 300, 400}
\* storyboards of one item, the empty storyboard, and one of three items
Storyboards ==
    {<<>>} \cup {<<[prompt |-> "hero", note |-> "waits", x |-> x, y |-> y]>> : x \in Xs, y \in Ys}
    \cup {<<[prompt |-> "hero", note |-> "waits", x |-> 100, y |-> 100],
            [prompt |-> "villain", note |-> "", x |-> 350, y |-> 400],
            [prompt |-> "car", note |-> "burning", x |-> 200, y |-> 200]>>}

\* hPos, were the thresholds themselves to count as left and right
hPosInclusive(i) ==
    IF i.x <= 150 THEN "on the left" ELSE IF i.x >= 300 THEN "on the right" ELSE "in the center"
hPos(i) == IF i.x < 150 THEN "on the left" ELSE IF i.x > 300 THEN "on the right" ELSE "in the center"
vPos(i) == IF i.y < 150 THEN "in the background/top" ELSE "in the foreground/bottom"

\* items.map(...): the pieces of each item's line
describedItems(items) ==
    [k \in 1..Len(items) |->
        <<items[k].prompt, " (", items[k].note, ") located ", hPos(items[k]), " and ",
          vPos(items[k])>>]

(* ---- generateScoreMetadata and generateTransitionPrompts ---- *)

Moods == {"tense", "calm"}
\* response.text of the backend of the score and of the transitions
ScoreReplyTexts ==
    {<<>>, <<NotJson>>, <<EmptyObjectDoc>>, <<NullDoc>>, <<StringDoc>>, <<ScoreDoc>>,
     <<IdeasDoc>>, <<IdeasStringDoc>>, <<FenceOpen, ScoreDoc, FenceClose>>}

\* response.text || '{}'
OrEmptyObject(text) == IF text = <<>> THEN <<EmptyObjectDoc>> ELSE text

DefaultScore(mood) ==
    [EmptyObject EXCEPT !.title = "Untitled Score", !.description = mood, !.bpm = "120",
                        !.instruments = List(<<"Synth", "Strings">>)]

\* lines 130-134
generateScoreMetadata(mood, text) ==
    IF JSONparse(OrEmptyObject(text)) = SyntaxError
    THEN DefaultScore(mood)
    ELSE JSONparse(OrEmptyObject(text))

DefaultIdeas == List(<<"Fade to black", "Pan to sky", "Focus pull on texture">>)

\* lines 148-153: reading .ideas of null throws inside the try block
generateTransitionPrompts(text) ==
    LET data == JSONparse(OrEmptyObject(text))
    IN  IF data = SyntaxError \/ data.json = "null" THEN DefaultIdeas
        ELSE IF data.ideas = Absent THEN List(<<>>)
        ELSE data.ideas

(* ---- calls of the functions of geminiService ---- *)

\* no call made, and nothing returned
NoCall == [fn |-> "none"]
NoResult == [fn |-> "none"]

\* generateVideo(p) up to the generateVideos request it sends
callGenerateVideo(p) ==
    /\ call' = [fn |-> "generateVideo", params |-> p]
    /\ result' = [fn |-> "generateVideo", request |-> BuildRequest(p),
                  settings |-> RequestSettings(p)]

\* generateStoryboardDescription(items) up to the prompt it builds
callGenerateStoryboardDescription(items) ==
    /\ call' = [fn |-> "generateStoryboardDescription", items |-> items]
    /\ result' = [fn |-> "generateStoryboardDescription", lines |-> describedItems(items)]

\* generateScoreMetadata(mood), the backend replying text
callGenerateScoreMetadata(mood, text) ==
    /\ call' = [fn |-> "generateScoreMetadata", mood |-> mood, text |-> text]
    /\ result' = [fn |-> "generateScoreMetadata", value |-> generateScoreMetadata(mood, text)]

\* generateTransitionPrompts(description), the backend replying text
callGenerateTransitionPrompts(text) ==
    /\ call' = [fn |-> "generateTransitionPrompts", text |-> text]
    /\ result' = [fn |-> "generateTransitionPrompts", value |-> generateTransitionPrompts(text)]

(* ---- the state after construction ---- *)

Init ==
    /\ aistudio \in BOOLEAN
    /\ showApiKeyDialog = FALSE
    /\ appState = "IDLE"
    /\ isPromptBarCollapsed = FALSE
    /\ scenes = <<>>
    /\ selectedSceneId = NoScene
    /\ selectedAssetIds = <<>>
    /\ externalPrompt = ""
    /\ initialFormValues = NullFormValues
    /\ form = InitialForm(NullFormValues)
    /\ nInvoked = 0
    /\ pc = [r \in Reqs |-> "none"]
    /\ params = [r \in Reqs |-> NoParams]
    /\ sent = [r \in Reqs |-> NoRequest]
    /\ log = [r \in Reqs |-> <<>>]
    /\ assets = <<>>
    /\ nAssets = 0
    /\ continuity = [activeAssetIds |-> <<>>, lightingLock |-> NoLighting]
    /\ selectedStyle = NoStyle
    /\ prompt = <<>>
    /\ finalPrompt = <<>>
    /\ preparedExternalAssets = <<>>
    /\ preparing = {}
    /\ reading = {}
    /\ extendScene = NoScene
    /\ activeView = "studio"
    /\ messages = <<[role |-> "ai", text |-> Greeting]>>
    /\ input = ""
    /\ isThinking = FALSE
    /\ nSends = 0
    /\ sendPc = [s \in Sends |-> "none"]
    /\ reply = [s \in Sends |-> NoReply]
    /\ action = [s \in Sends |-> NoAction]
    /\ sendLog = [s \in Sends |-> <<>>]
    /\ imaging = {}
    /\ call = NoCall
    /\ result = NoResult

(* ---- App: key selection ---- *)

\* what await window.aistudio.hasSelectedApiKey() does
KeyAnswers == {"selected", "unselected", "throws"}

(* ---- App.handleGenerate and generateVideo ---- *)

\* the invocations whose generateVideo call has been made and has not settled
InFlightPcs == {"submitting", "sleeping", "checking", "fetching"}
InFlight(r) == pc[r] \in InFlightPcs

\* handleGenerate lines 116-119, then generateVideo up to its first await,
\* the generateVideos call
StartGeneration(r) ==
    /\ appState' = "LOADING"
    /\ externalPrompt' = ""
    /\ initialFormValues' = NullFormValues
    /\ isPromptBarCollapsed' = TRUE
    /\ form' = RenderForm(form, ~isPromptBarCollapsed, FALSE, NullFormValues, TRUE,
                          preparedExternalAssets, FALSE)
    /\ sent' = [sent EXCEPT ![r] = BuildRequest(params'[r])]
    /\ pc' = [pc EXCEPT ![r] = "submitting"]
    /\ log' = [log EXCEPT ![r] = <<"submit">>]
    /\ UNCHANGED <<keyVars, assistVars, studioVars, readVars, preparedExternalAssets, scenes, selectedSceneId, selectedAssetIds>>

\* FailGeneration, were the catch block to drop the selection as well
FailGenerationClearsSelection(r, cause) ==
    /\ appState' = "ERROR"
    /\ selectedSceneId' = NoScene
    /\ pc' = [pc EXCEPT ![r] = "error"]
    /\ log' = [log EXCEPT ![r] = <<cause, "error">>]
    /\ sent' = [sent EXCEPT ![r] = NoRequest]
    /\ params' = [params EXCEPT ![r] = PromptOnly(@)]
    /\ UNCHANGED <<keyVars, assistVars, studioVars, readVars, preparedExternalAssets, composeVars, isPromptBarCollapsed, scenes, selectedAssetIds,
                   externalPrompt, initialFormValues, form, nInvoked>>

\* FailGeneration, were the asset selection cleared on a failure too
FailGenerationClearsAssets(r, cause) ==
    /\ appState' = "ERROR"
    /\ selectedAssetIds' = <<>>
    /\ pc' = [pc EXCEPT ![r] = "error"]
    /\ log' = [log EXCEPT ![r] = <<cause, "error">>]
    /\ sent' = [sent EXCEPT ![r] = NoRequest]
    /\ params' = [params EXCEPT ![r] = PromptOnly(@)]
    /\ UNCHANGED <<keyVars, assistVars, studioVars, readVars, preparedExternalAssets, composeVars,
                   isPromptBarCollapsed, scenes, selectedSceneId,
                   externalPrompt, initialFormValues, form, nInvoked>>

\* FailGeneration, were the catch block to submit the request once more
FailGenerationRetries(r, cause) ==
    /\ pc' = [pc EXCEPT ![r] = "submitting"]
    /\ log' = [log EXCEPT ![r] = @ \o <<cause, "submit">>]
    /\ sent' = [sent EXCEPT ![r] = BuildRequest(params[r])]
    /\ UNCHANGED <<stableVars, params>>

\* the catch block of handleGenerate, entered for cause (a rejected call,
\* or "No video URI returned"); of a returned invocation the log keeps the end only
FailGeneration(r, cause) ==
    /\ appState' = "ERROR"
    /\ pc' = [pc EXCEPT ![r] = "error"]
    /\ log' = [log EXCEPT ![r] = <<cause, "error">>]
    /\ sent' = [sent EXCEPT ![r] = NoRequest]
    /\ params' = [params EXCEPT ![r] = PromptOnly(@)]
    /\ UNCHANGED <<keyVars, assistVars, studioVars, readVars, preparedExternalAssets, composeVars, isPromptBarCollapsed, scenes, selectedSceneId,
                   selectedAssetIds, externalPrompt, initialFormValues, form, nInvoked>>

\* the Scene handleGenerate builds from the result of generateVideo
NewScene(r, body) ==
    [id |-> r, videoBlob |-> body, videoObject |-> VideoOf(r), prompt |-> params[r].prompt]

\* FinishGeneration, were the new scene put in front of the list
FinishGenerationPrepends(r, body) ==
    /\ scenes' = <<NewScene(r, body)>> \o scenes
    /\ selectedSceneId' = NewScene(r, body).id
    /\ appState' = "SUCCESS"
    /\ selectedAssetIds' = <<>>
    /\ PrepareEffect(assets, selectedAssetIds')
    /\ pc' = [pc EXCEPT ![r] = "success"]
    /\ log' = [log EXCEPT ![r] = <<"scene">>]
    /\ UNCHANGED <<keyVars, assistVars, studioVars, reading, extendScene, composeVars,
                   isPromptBarCollapsed, externalPrompt, initialFormValues,
                   form, nInvoked, params, sent>>

\* lines 124-136 of handleGenerate
FinishGeneration(r, body) ==
    /\ scenes' = Append(scenes, NewScene(r, body))
    /\ selectedSceneId' = NewScene(r, body).id
    /\ appState' = "SUCCESS"
    /\ selectedAssetIds' = <<>>
    /\ PrepareEffect(assets, selectedAssetIds')
    /\ pc' = [pc EXCEPT ![r] = "success"]
    /\ log' = [log EXCEPT ![r] = <<"scene">>]
    /\ UNCHANGED <<keyVars, assistVars, studioVars, reading, extendScene, composeVars,
                   isPromptBarCollapsed, externalPrompt, initialFormValues,
                   form, nInvoked, params, sent>>

\* AfterDone, were generateVideo to query the finished operation once more
AfterDoneChecksAgain(r, hasUri, answer) ==
    IF hasUri
    THEN /\ pc' = [pc EXCEPT ![r] = "fetching"]
         /\ log' = [log EXCEPT ![r] = @ \o <<answer, "check", "uri", "fetch">>]
         /\ sent' = [sent EXCEPT ![r] = NoRequest]
         /\ params' = [params EXCEPT ![r] = PromptOnly(@)]
         /\ UNCHANGED stableVars
    ELSE FailGeneration(r, "nouri")

\* AfterDone, were generateVideo to fetch without looking at the uri
AfterDoneFetchesAnyway(r, hasUri, answer) ==
    /\ pc' = [pc EXCEPT ![r] = "fetching"]
    /\ log' = [log EXCEPT ![r] = @ \o (IF hasUri THEN <<answer, "uri", "fetch">>
                                                   ELSE <<answer, "fetch">>)]
    /\ sent' = [sent EXCEPT ![r] = NoRequest]
    /\ params' = [params EXCEPT ![r] = PromptOnly(@)]
    /\ UNCHANGED stableVars

\* generateVideo after the poll loop: extract the uri, start the media fetch
AfterDone(r, hasUri, answer) ==
    IF hasUri
    THEN /\ pc' = [pc EXCEPT ![r] = "fetching"]
         /\ log' = [log EXCEPT ![r] = @ \o <<answer, "uri", "fetch">>]
         /\ sent' = [sent EXCEPT ![r] = NoRequest]
         /\ params' = [params EXCEPT ![r] = PromptOnly(@)]
         /\ UNCHANGED stableVars
    ELSE FailGeneration(r, "nouri")

\* StartSleep, were the poll loop to query before it waits
StartSleepChecksFirst(r, answer) ==
    /\ pc' = [pc EXCEPT ![r] = "checking"]
    /\ log' = [log EXCEPT ![r] = @ \o <<answer, "check">>]
    /\ sent' = [sent EXCEPT ![r] = NoRequest]
    /\ params' = [params EXCEPT ![r] = PromptOnly(@)]
    /\ UNCHANGED stableVars

\* the poll loop finds the operation not done: it starts the interval timer
StartSleep(r, answer) ==
    /\ pc' = [pc EXCEPT ![r] = "sleeping"]
    /\ log' = [log EXCEPT ![r] = Append(@, answer)]
    /\ sent' = [sent EXCEPT ![r] = NoRequest]
    /\ params' = [params EXCEPT ![r] = PromptOnly(@)]
    /\ UNCHANGED stableVars

\* PromptForm.handleSubmit calls onGenerate = handleGenerate
\* (the submit button is disabled while the prompt is blank), up to the await
\* of hasSelectedApiKey when window.aistudio is present
handleSubmit(text) ==
    /\ ~isPromptBarCollapsed
    /\ text # <<>>
    /\ nInvoked < MaxReqs
    /\ LET r == nInvoked + 1 IN
        /\ nInvoked' = r
        /\ prompt' = text
        /\ finalPrompt' = Compose(text, selectedStyle, continuity, assets)
        /\ params' = [params EXCEPT ![r] = SubmitParams(form, finalPrompt')]
        /\ IF aistudio
           THEN /\ pc' = [pc EXCEPT ![r] = "keycheck"]
                /\ UNCHANGED <<keyVars, assistVars, studioVars, readVars, preparedExternalAssets, appState, isPromptBarCollapsed, scenes,
                               selectedSceneId, selectedAssetIds, externalPrompt,
                               initialFormValues, form, sent, log>>
           ELSE StartGeneration(r)

\* keyCheck, were a failed check reported as a failed generation
keyCheckFailsGeneration(r, ans) ==
    /\ pc[r] = "keycheck"
    /\ UNCHANGED <<nInvoked, params, composeVars>>
    /\ IF ans = "selected"
       THEN StartGeneration(r)
       ELSE /\ showApiKeyDialog' = TRUE
            /\ appState' = "ERROR"
            /\ pc' = [pc EXCEPT ![r] = "stopped"]
            /\ log' = [log EXCEPT ![r] = <<ans>>]
            /\ UNCHANGED <<aistudio, assistVars, studioVars, readVars, preparedExternalAssets,
                           isPromptBarCollapsed, scenes, selectedSceneId, selectedAssetIds,
                           externalPrompt, initialFormValues, form, sent>>

\* handleGenerate resumes after await window.aistudio.hasSelectedApiKey(): with
\* a key selected it goes on; otherwise it opens the dialog and returns, the
\* log keeping what the check did
keyCheck(r, ans) ==
    /\ pc[r] = "keycheck"
    /\ UNCHANGED <<nInvoked, params, composeVars>>
    /\ IF ans = "selected"
       THEN StartGeneration(r)
       ELSE /\ showApiKeyDialog' = TRUE
            /\ pc' = [pc EXCEPT ![r] = "stopped"]
            /\ log' = [log EXCEPT ![r] = <<ans>>]
            /\ UNCHANGED <<aistudio, assistVars, studioVars, readVars, preparedExternalAssets, appState, isPromptBarCollapsed, scenes,
                           selectedSceneId, selectedAssetIds, externalPrompt,
                           initialFormValues, form, sent>>

\* what the backend answers to generateVideos and to getVideosOperation
OperationAnswers == {"rejected", "notdone", "done_uri", "done_nouri"}

Count(s, e) == Cardinality({i \in 1..Len(s) : s[i] = e})

\* generateVideo resumes after await ai.models.generateVideos(...)
SubmitAnswer(r, ans) ==
    /\ pc[r] = "submitting"
    /\ CASE ans = "rejected" -> FailGeneration(r, "rejected")
         [] ans = "notdone" -> StartSleep(r, "handle")
         [] ans = "done_uri" -> AfterDone(r, TRUE, "doneHandle")
         [] ans = "done_nouri" -> AfterDone(r, FALSE, "doneHandle")

\* the interval timer fires: generateVideo calls getVideosOperation
TimerFires(r) ==
    /\ pc[r] = "sleeping"
    /\ pc' = [pc EXCEPT ![r] = "checking"]
    /\ log' = [log EXCEPT ![r] = @ \o <<"wait", "check">>]
    /\ UNCHANGED <<stableVars, params, sent>>

\* generateVideo resumes after await ai.operations.getVideosOperation(...)
CheckAnswer(r, ans) ==
    /\ pc[r] = "checking"
    /\ CASE ans = "rejected" -> FailGeneration(r, "rejected")
         [] ans = "notdone" -> Count(log[r], "notdone") < MaxNotDone /\ StartSleep(r, "notdone")
         [] ans = "done_uri" -> AfterDone(r, TRUE, "done")
         [] ans = "done_nouri" -> AfterDone(r, FALSE, "done")

\* what fetch(uri&key) and videoRes.blob() do: a response with a body, whatever
\* its status, or a rejection (no connection, body not readable)
FetchAnswers == {"ok", "denied", "network_error"}

\* generateVideo resumes after await fetch(...) and await videoRes.blob() (it does
\* nothing between the two) and returns; handleGenerate resumes after
\* await generateVideo(params)
FetchAnswer(r, ans) ==
    /\ pc[r] = "fetching"
    /\ CASE ans = "network_error" -> FailGeneration(r, "rejected")
         [] ans = "ok" -> FinishGeneration(r, MediaBody)
         [] ans = "denied" -> FinishGeneration(r, ErrorBody)

(* ---- App: layout and Timeline handlers ---- *)

\* the "Open Director" / "Hide" button
togglePromptBar ==
    /\ isPromptBarCollapsed' = ~isPromptBarCollapsed
    /\ form' = RenderForm(form, ~isPromptBarCollapsed, isPromptBarCollapsed,
                          initialFormValues, FALSE, preparedExternalAssets, FALSE)
    /\ UNCHANGED <<keyVars, assistVars, studioVars, readVars, preparedExternalAssets, composeVars, appState, scenes, selectedSceneId, selectedAssetIds,
                   externalPrompt, initialFormValues, reqVars>>

SceneIds == {scenes[i].id : i \in 1..Len(scenes)}

onSelectScene(id) ==
    /\ id \in SceneIds
    /\ selectedSceneId' = id
    /\ UNCHANGED <<keyVars, assistVars, studioVars, readVars, preparedExternalAssets, composeVars, appState, isPromptBarCollapsed, scenes, selectedAssetIds,
                   externalPrompt, initialFormValues, form, reqVars>>

\* onDeleteScene, were it to clear the selection whatever scene is deleted
onDeleteSceneAlwaysClears(id) ==
    /\ id \in SceneIds
    /\ scenes' = SelectSeq(scenes, LAMBDA s : s.id # id)
    /\ selectedSceneId' = NoScene
    /\ UNCHANGED <<keyVars, assistVars, studioVars, readVars, preparedExternalAssets, composeVars, appState, isPromptBarCollapsed, selectedAssetIds,
                   externalPrompt, initialFormValues, form, reqVars>>

\* onDeleteScene, were it to leave the selection alone
onDeleteSceneKeepsSelection(id) ==
    /\ id \in SceneIds
    /\ scenes' = SelectSeq(scenes, LAMBDA s : s.id # id)
    /\ UNCHANGED <<keyVars, assistVars, studioVars, readVars, preparedExternalAssets, composeVars, appState, isPromptBarCollapsed, selectedSceneId, selectedAssetIds,
                   externalPrompt, initialFormValues, form, reqVars>>

onDeleteScene(id) ==
    /\ id \in SceneIds
    /\ scenes' = SelectSeq(scenes, LAMBDA s : s.id # id)
    /\ selectedSceneId' = IF selectedSceneId = id THEN NoScene ELSE selectedSceneId
    /\ UNCHANGED <<keyVars, assistVars, studioVars, readVars, preparedExternalAssets, composeVars, appState, isPromptBarCollapsed, selectedAssetIds,
                   externalPrompt, initialFormValues, form, reqVars>>

\* "New Sequence"
onAddScene ==
    /\ selectedSceneId' = NoScene
    /\ initialFormValues' = NullFormValues
    /\ externalPrompt' = ""
    /\ selectedAssetIds' = <<>>
    /\ PrepareEffect(assets, selectedAssetIds')
    /\ form' = RenderForm(form, ~isPromptBarCollapsed, ~isPromptBarCollapsed,
                          NullFormValues, TRUE, preparedExternalAssets', TRUE)
    /\ UNCHANGED <<keyVars, assistVars, studioVars, reading, extendScene, composeVars, appState,
                   isPromptBarCollapsed, scenes, reqVars>>

\* the Extend button of a scene the Timeline shows: handleExtend up to
\* readAsDataURL
handleExtend(id) ==
    /\ id \in SceneIds
    /\ reading' = reading \cup {scenes[CHOOSE i \in 1..Len(scenes) : scenes[i].id = id]}
    /\ UNCHANGED <<keyVars, assistVars, appState, isPromptBarCollapsed, scenes, selectedSceneId,
                   selectedAssetIds, externalPrompt, initialFormValues, form, reqVars,
                   studioVars, composeVars, preparing, extendScene, preparedExternalAssets>>

\* the initialFormValues handleExtend sets for a video token
ExtendFormValues(video) ==
    [isNull |-> FALSE, mode |-> EXTEND_VIDEO, inputVideoObject |-> video]

\* onloadend, were it to look the scene up in the timeline when the read ends
\* instead of keeping the scene it was called with
onloadendLooksUpScene(scene, ok) ==
    /\ scene \in reading
    /\ reading' = reading \ {scene}
    /\ IF ok
       THEN /\ initialFormValues' =
                  ExtendFormValues(IF scene.id \in SceneIds
                                   THEN scene.videoObject
                                   ELSE NoVideo)
            /\ isPromptBarCollapsed' = FALSE
            /\ form' = RenderForm(form, ~isPromptBarCollapsed, TRUE, initialFormValues',
                                  TRUE, preparedExternalAssets, FALSE)
            /\ extendScene' = scene.id
       ELSE UNCHANGED <<initialFormValues, isPromptBarCollapsed, form, extendScene>>
    /\ UNCHANGED <<keyVars, assistVars, appState, scenes, selectedSceneId, selectedAssetIds,
                   externalPrompt, reqVars, studioVars, composeVars, preparing,
                   preparedExternalAssets>>

\* reader.onloadend of handleExtend for the scene it was called with: with a
\* result (ok) it fills initialFormValues and opens the prompt bar; without
\* one it throws before it sets anything
onloadend(scene, ok) ==
    /\ scene \in reading
    /\ reading' = reading \ {scene}
    /\ IF ok
       THEN /\ initialFormValues' = ExtendFormValues(scene.videoObject)
            /\ isPromptBarCollapsed' = FALSE
            /\ form' = RenderForm(form, ~isPromptBarCollapsed, TRUE, initialFormValues',
                                  TRUE, preparedExternalAssets, FALSE)
            /\ extendScene' = scene.id
       ELSE UNCHANGED <<initialFormValues, isPromptBarCollapsed, form, extendScene>>
    /\ UNCHANGED <<keyVars, assistVars, appState, scenes, selectedSceneId, selectedAssetIds,
                   externalPrompt, reqVars, studioVars, composeVars, preparing,
                   preparedExternalAssets>>

(* ---- PromptForm: the widgets ---- *)

\* the mode selector
setGenerationMode(m) ==
    /\ ~isPromptBarCollapsed
    /\ form' = [form EXCEPT !.generationMode = m]
    /\ UNCHANGED appVars

\* the start frame upload, shown in frames-to-video mode
setStartFrame(present) ==
    /\ ~isPromptBarCollapsed
    /\ form.generationMode = FRAMES_TO_VIDEO
    /\ form' = [form EXCEPT !.startFrame = present]
    /\ UNCHANGED appVars

(* ---- the bin, the StyleSelector and the ContinuityPanel ---- *)

\* BinSystem and the Director add a generated asset in front of the list
onAddAsset(p) ==
    /\ nAssets < MaxAssets
    /\ nAssets' = nAssets + 1
    /\ assets' = <<[id |-> nAssets + 1, prompt |-> p]>> \o assets
    /\ PrepareEffect(assets', selectedAssetIds)
    /\ UNCHANGED <<nonStudioVars, composeVars, continuity, selectedStyle, reading, extendScene>>

\* the remove button of an asset the bin shows
onRemoveAsset(id) ==
    /\ \E i \in 1..Len(assets) : assets[i].id = id
    /\ assets' = SelectSeq(assets, LAMBDA a : a.id # id)
    /\ PrepareEffect(assets', selectedAssetIds)
    /\ UNCHANGED <<nonStudioVars, composeVars, nAssets, continuity, selectedStyle,
                   reading, extendScene>>

\* a click on an asset the bin shows
onSelectAsset(id) ==
    /\ \E i \in 1..Len(assets) : assets[i].id = id
    /\ selectedAssetIds' = IF Includes(selectedAssetIds, id)
                           THEN SelectSeq(selectedAssetIds, LAMBDA x : x # id)
                           ELSE Append(selectedAssetIds, id)
    /\ PrepareEffect(assets, selectedAssetIds')
    /\ UNCHANGED <<keyVars, assistVars, appState, isPromptBarCollapsed, scenes, selectedSceneId,
                   externalPrompt, initialFormValues, form, reqVars, studioVars,
                   composeVars, reading, extendScene>>

\* prepare() resumes with the files of the assets it was started for; the
\* PromptForm, if mounted, takes them as its reference images
prepareDone(files) ==
    /\ files \in preparing
    /\ preparing' = preparing \ {files}
    /\ preparedExternalAssets' = files
    /\ form' = RenderForm(form, ~isPromptBarCollapsed, ~isPromptBarCollapsed,
                          initialFormValues, FALSE, files, TRUE)
    /\ UNCHANGED <<keyVars, assistVars, appState, isPromptBarCollapsed, scenes, selectedSceneId,
                   selectedAssetIds, externalPrompt, initialFormValues, reqVars,
                   studioVars, composeVars, reading, extendScene>>

\* the Cast Lock checkbox of an asset the ContinuityPanel shows
onToggleAsset(id) ==
    /\ ~isPromptBarCollapsed
    /\ \E i \in 1..Len(assets) : assets[i].id = id
    /\ continuity' =
          [continuity EXCEPT !.activeAssetIds =
              IF Includes(@, id) THEN SelectSeq(@, LAMBDA x : x # id) ELSE Append(@, id)]
    /\ UNCHANGED <<nonStudioVars, composeVars, readVars, preparedExternalAssets, assets, nAssets, selectedStyle>>

\* a button of the Atmosphere Lock
onSetLighting(light) ==
    /\ ~isPromptBarCollapsed
    /\ continuity' = [continuity EXCEPT !.lightingLock =
                                        IF @ = light THEN NoLighting ELSE light]
    /\ UNCHANGED <<nonStudioVars, composeVars, readVars, preparedExternalAssets, assets, nAssets, selectedStyle>>

\* a button of the StyleSelector
onSelectStyle(style) ==
    /\ ~isPromptBarCollapsed
    /\ selectedStyle' = IF selectedStyle.id = style.id THEN NoStyle ELSE style
    /\ UNCHANGED <<nonStudioVars, composeVars, readVars, preparedExternalAssets, assets, nAssets, continuity>>

\* handleSubmit up to its call of onGenerate: the final prompt it builds
composeFinalPrompt(text) ==
    /\ ~isPromptBarCollapsed
    /\ text # <<>>
    /\ prompt' = text
    /\ finalPrompt' = Compose(text, selectedStyle, continuity, assets)
    /\ UNCHANGED <<nonStudioVars, studioVars, readVars, preparedExternalAssets>>

(* ---- the Director: chatWithDirector, handleSend, handleDirectorAction ---- *)

ActionTypes == {"GENERATE_ASSET", "UPDATE_PROMPT", "SWITCH_VIEW", "CHAT_RESPONSE"}

\* text.replace of the two fence markers
cleanText(text) == SelectSeq(text, LAMBDA piece : piece \notin {FenceOpen, FenceClose})

\* the sends whose chat call has settled
Settled == {s \in Sends : sendPc[s] \in {"done", "crashed"}}

\* chatWithDirector, were its parsing to keep state between calls and fail on
\* every second reply
chatWithDirectorAlternates(text) ==
    IF Cardinality(Settled) % 2 = 1 \/ JSONparse(cleanText(OrEmptyObject(text))) = SyntaxError
    THEN ParseErrorAction
    ELSE JSONparse(cleanText(OrEmptyObject(text)))

\* chatWithDirector from line 56 on, text being response.text: what it returns
chatWithDirector(text) ==
    IF JSONparse(cleanText(OrEmptyObject(text))) = SyntaxError
    THEN ParseErrorAction
    ELSE JSONparse(cleanText(OrEmptyObject(text)))

\* an uncaught error in a render has taken the component tree down
Crashed == \E s \in Sends : sendPc[s] = "crashed"

\* the PromptForm is rendered in the studio view while the prompt bar is open
FormMounted(view, collapsed) == view = "studio" /\ ~collapsed

\* what no action of the Director touches
directorFrame == <<keyVars, appState, scenes, selectedSceneId, selectedAssetIds,
                   initialFormValues, reqVars, studioVars, composeVars, readVars,
                   preparedExternalAssets, serviceVars>>

\* onChange of the input field
setInput(t) ==
    /\ ~Crashed
    /\ input' = t
    /\ UNCHANGED <<directorFrame, externalPrompt, isPromptBarCollapsed, form, activeView,
                   messages, isThinking, nSends, sendPc, reply, action, sendLog, imaging>>

\* handleSend up to await chatWithDirector: the Send button and the Enter key
handleSend ==
    /\ ~Crashed
    /\ Trim(input) # ""
    /\ nSends < MaxSends
    /\ nSends' = nSends + 1
    /\ messages' = Append(messages, [role |-> "user", text |-> <<input>>])
    /\ input' = ""
    /\ isThinking' = TRUE
    /\ sendPc' = [sendPc EXCEPT ![nSends + 1] = "waiting"]
    /\ sendLog' = [sendLog EXCEPT ![nSends + 1] = <<"user">>]
    /\ UNCHANGED <<directorFrame, externalPrompt, isPromptBarCollapsed, form, activeView,
                   reply, action, imaging>>

\* handleDirectorAction(a) for send s up to its first await: what it sets
handleDirectorAction(s, a) ==
    CASE a.type = "GENERATE_ASSET" /\ a.hasPayload ->
            /\ imaging' = imaging \cup {s}
            /\ UNCHANGED <<externalPrompt, isPromptBarCollapsed, form, activeView>>
      [] a.type = "UPDATE_PROMPT" /\ a.hasPayload ->
            /\ externalPrompt' = a.prompt
            /\ isPromptBarCollapsed' = FALSE
            /\ form' = RenderForm(form, FormMounted(activeView, isPromptBarCollapsed),
                                  FormMounted(activeView, FALSE), initialFormValues, FALSE,
                                  preparedExternalAssets, FALSE)
            /\ UNCHANGED <<activeView, imaging>>
      [] a.type = "SWITCH_VIEW" /\ a.hasPayload /\ a.view \in {"storyboard", "studio"} ->
            /\ activeView' = a.view
            /\ form' = RenderForm(form, FormMounted(activeView, isPromptBarCollapsed),
                                  FormMounted(a.view, isPromptBarCollapsed),
                                  initialFormValues, FALSE, preparedExternalAssets, FALSE)
            /\ UNCHANGED <<externalPrompt, isPromptBarCollapsed, imaging>>
      [] OTHER ->
            UNCHANGED <<externalPrompt, isPromptBarCollapsed, form, activeView, imaging>>

\* the reply handleSend builds after onAction; reading a field of a missing
\* payload throws, which takes handleSend to its catch block
ReplyAfterAction(a) ==
    CASE a.type = "GENERATE_ASSET" ->
            IF a.hasPayload THEN <<"Generating ", a.prompt, "...">> ELSE LostThought
      [] a.type = "UPDATE_PROMPT" ->
            <<"I've updated the main prompt with that scene description.">>
      [] a.type = "SWITCH_VIEW" ->
            IF a.hasPayload THEN <<"Switching to ", a.view, " view.">> ELSE LostThought
      [] OTHER -> <<"Done.">>

\* handleSend of send s appends an AI message and clears isThinking
AppendReply(s, text, did) ==
    /\ messages' = Append(messages, [role |-> "ai", text |-> text])
    /\ isThinking' = FALSE
    /\ sendPc' = [sendPc EXCEPT ![s] = "done"]
    /\ sendLog' = [sendLog EXCEPT ![s] = @ \o did]

\* handleSend of send s resumes after await chatWithDirector, the backend
\* having replied text or rejected the call: lines 30-49, with what
\* handleDirectorAction sets when onAction calls it
chatSettles(s, text) ==
    /\ ~Crashed
    /\ sendPc[s] = "waiting"
    /\ reply' = [reply EXCEPT ![s] = text]
    /\ UNCHANGED <<directorFrame, input, nSends>>
    /\ IF text = Rejected
       THEN \* chatWithDirector throws: the catch block
            /\ AppendReply(s, LostThought, <<"ai">>)
            /\ UNCHANGED <<action, externalPrompt, isPromptBarCollapsed, form, activeView,
                           imaging>>
       ELSE /\ action' = [action EXCEPT ![s] = chatWithDirector(text)]
            /\ LET a == chatWithDirector(text) IN
               IF a.json = "null"
               THEN \* reading action.type throws: the catch block
                    /\ AppendReply(s, LostThought, <<"ai">>)
                    /\ UNCHANGED <<externalPrompt, isPromptBarCollapsed, form, activeView,
                                   imaging>>
               ELSE IF a.type = "CHAT_RESPONSE"
               THEN /\ IF a.hasPayload
                       THEN AppendReply(s, <<a.text>>, <<"ai">>)
                       ELSE \* the updater reads payload.text when React renders:
                            \* the error is thrown in the render, outside handleSend
                            /\ sendPc' = [sendPc EXCEPT ![s] = "crashed"]
                            /\ sendLog' = [sendLog EXCEPT ![s] = Append(@, "render throws")]
                            /\ UNCHANGED <<messages, isThinking>>
                    /\ UNCHANGED <<externalPrompt, isPromptBarCollapsed, form, activeView,
                                   imaging>>
               ELSE /\ handleDirectorAction(s, a)
                    /\ AppendReply(s, ReplyAfterAction(a), <<"onAction", "ai">>)

\* handleDirectorAction of send s resumes after await generateImage(prompt):
\* with an image it puts the new asset in front of the list
imageDone(s, ok) ==
    /\ ~Crashed
    /\ s \in imaging
    /\ imaging' = imaging \ {s}
    /\ IF ok
       THEN /\ nAssets < MaxAssets
            /\ nAssets' = nAssets + 1
            /\ assets' = <<[id |-> nAssets + 1, prompt |-> action[s].prompt]>> \o assets
            /\ PrepareEffect(assets', selectedAssetIds)
       ELSE UNCHANGED <<nAssets, assets, preparing, preparedExternalAssets>>
    /\ UNCHANGED <<keyVars, appState, scenes, selectedSceneId, selectedAssetIds,
                   initialFormValues, reqVars, continuity, selectedStyle, composeVars,
                   reading, extendScene, serviceVars, externalPrompt, isPromptBarCollapsed,
                   form, activeView, messages, input, isThinking, nSends, sendPc, reply,
                   action, sendLog>>

(* ---- the program ---- *)

Next ==
    \/ \E text \in Prompts : handleSubmit(text)
    \/ \E r \in Reqs, ans \in KeyAnswers : keyCheck(r, ans)
    \/ \E r \in Reqs, ans \in OperationAnswers : SubmitAnswer(r, ans)
    \/ \E r \in Reqs : TimerFires(r)
    \/ \E r \in Reqs, ans \in OperationAnswers : CheckAnswer(r, ans)
    \/ \E r \in Reqs, ans \in FetchAnswers : FetchAnswer(r, ans)
    \/ togglePromptBar
    \/ \E id \in Reqs : onSelectScene(id)
    \/ \E id \in Reqs : onDeleteScene(id)
    \/ onAddScene
    \/ \E m \in SelectableModes : setGenerationMode(m)
    \/ \E b \in BOOLEAN : setStartFrame(b)

Spec == Init /\ [][Next]_vars

\* the prompt composition with the state it reads: the bin, the style and the
\* continuity profile
NextCast ==
    \/ \E p \in AssetPrompts : onAddAsset(p)
    \/ \E id \in AssetIds : onRemoveAsset(id)
    \/ \E id \in AssetIds : onToggleAsset(id)
    \/ \E light \in Lightings : onSetLighting(light)
    \/ \E style \in Styles : onSelectStyle(style)
    \/ \E text \in Prompts : composeFinalPrompt(text)
    \/ togglePromptBar

SpecCast == Init /\ [][NextCast]_vars

\* the operations as a backend answers them that finishes each operation
\* before its handle is returned
FinishedAnswers == OperationAnswers \ {"notdone"}
\* the media fetch as a server answers it that refuses no one
MediaAnswers == FetchAnswers \ {"denied"}

\* one of the prompts assets are generated from
SomeAssetPrompt == CHOOSE p \in AssetPrompts : TRUE

\* a generation with the asset selection of the bin and the files prepared
\* from it, where window.aistudio is absent: the prompt bar closes when the
\* generation starts
NextSelect ==
    \/ \E text \in Prompts : handleSubmit(text)
    \/ \E r \in Reqs, ans \in FinishedAnswers : SubmitAnswer(r, ans)
    \/ \E r \in Reqs, ans \in MediaAnswers : FetchAnswer(r, ans)
    \/ onAddScene
    \/ onAddAsset(SomeAssetPrompt)
    \/ \E id \in AssetIds : onRemoveAsset(id)
    \/ \E id \in AssetIds : onSelectAsset(id)
    \/ \E files \in preparing : prepareDone(files)

\* the app as it starts where window.aistudio is absent
InitSelect == Init /\ ~aistudio

SpecSelect == InitSelect /\ [][NextSelect]_vars

\* generations with the Extend button of the Timeline
NextExtend ==
    \/ \E text \in Prompts : handleSubmit(text)
    \/ \E r \in Reqs, ans \in KeyAnswers : keyCheck(r, ans)
    \/ \E r \in Reqs, ans \in FinishedAnswers : SubmitAnswer(r, ans)
    \/ \E r \in Reqs, ans \in MediaAnswers : FetchAnswer(r, ans)
    \/ togglePromptBar
    \/ \E id \in Reqs : onSelectScene(id)
    \/ \E id \in Reqs : onDeleteScene(id)
    \/ onAddScene
    \/ \E m \in SelectableModes : setGenerationMode(m)
    \/ \E id \in Reqs : handleExtend(id)
    \/ \E scene \in reading, ok \in BOOLEAN : onloadend(scene, ok)

SpecExtend == Init /\ [][NextExtend]_vars

\* what a call of a function of geminiService leaves alone
nonServiceVars == <<keyVars, appState, isPromptBarCollapsed, scenes, selectedSceneId,
                    selectedAssetIds, externalPrompt, initialFormValues, form, reqVars,
                    studioVars, composeVars, readVars, preparedExternalAssets,
                    activeView, directorVars>>

\* the functions of geminiService that build a request or read a reply, called
\* with every input
NextService ==
    \/ \E p \in VideoParams : callGenerateVideo(p) /\ UNCHANGED nonServiceVars
    \/ \E items \in Storyboards :
          callGenerateStoryboardDescription(items) /\ UNCHANGED nonServiceVars
    \/ \E mood \in Moods, text \in ScoreReplyTexts :
          callGenerateScoreMetadata(mood, text) /\ UNCHANGED nonServiceVars
    \/ \E text \in ScoreReplyTexts :
          callGenerateTransitionPrompts(text) /\ UNCHANGED nonServiceVars

SpecService == Init /\ [][NextService]_vars

\* what the backend of the Director does: a reply text, or a rejected call
DirectorAnswers == ReplyTexts \cup {Rejected}

\* the DirectorAssistant with the views and the prompt bar its actions change
NextDirector ==
    \/ \E t \in Inputs : setInput(t)
    \/ handleSend
    \/ \E s \in Sends, text \in DirectorAnswers : chatSettles(s, text)
    \/ \E s \in Sends, ok \in BOOLEAN : imageDone(s, ok)
    \/ ~Crashed /\ activeView = "studio" /\ togglePromptBar

SpecDirector == Init /\ [][NextDirector]_vars

(* ---- properties ---- *)

Elems(s) == {s[i] : i \in 1..Len(s)}
Last(s) == s[Len(s)]

\* a newer submission was started after invocation r
Superseded(r) == \E q \in Reqs : q > r /\ pc[q] \notin {"none", "keycheck", "stopped"}

\* C1: at most one video generation request is in flight at any time; a second
\* handleGenerate makes no backend submission until the first has completed.
C1_AtMostOneInFlight == Cardinality({r \in Reqs : InFlight(r)}) <= 1

\* C2: the late outcome of a submission that is no longer the newest one is
\* discarded: it appends no scene and changes neither selectedSceneId,
\* selectedAssetIds nor appState.
C2_StaleOutcomeDiscarded ==
    [][\A r \in Reqs :
        (InFlight(r) /\ Superseded(r) /\ pc'[r] \in {"success", "error"})
        => /\ scenes' = scenes
           /\ selectedSceneId' = selectedSceneId
           /\ selectedAssetIds' = selectedAssetIds
           /\ appState' = appState]_vars

\* C3: for a submission in references-to-video mode with no reference image no
\* generateVideos request of any kind is sent.
C3_NoReferencesNoRequest ==
    \A r \in Reqs :
        (params[r].mode = REFERENCES_TO_VIDEO /\ params[r].referenceImages = 0)
        => sent[r] = NoRequest

\* C4: for a submission in frames-to-video mode with no start frame no
\* generateVideos request is sent.
C4_NoStartFrameNoRequest ==
    \A r \in Reqs :
        (params[r].mode = FRAMES_TO_VIDEO /\ ~params[r].startFrame)
        => sent[r] = NoRequest

\* C5: when the operation is reported done without a media uri, generateVideo
\* throws without having fetched, and handleGenerate sets appState to ERROR; no
\* step of an invocation other than its success changes scenes or selectedSceneId.
C5_EmptyResultIsError ==
    [][\A r \in Reqs :
        /\ (InFlight(r) /\ log'[r] = <<"nouri", "error">>)
           => /\ appState' = "ERROR"
              /\ pc'[r] = "error"
              /\ "fetch" \notin Elems(log[r])
              /\ scenes' = scenes
              /\ selectedSceneId' = selectedSceneId
        /\ (pc'[r] # pc[r] /\ pc'[r] # "success")
           => (scenes' = scenes /\ selectedSceneId' = selectedSceneId)]_vars

\* a failed second submission left the scene and the selection of the first alone
C5_Witness ==
    \E r \in Reqs :
        /\ log[r] = <<"nouri", "error">>
        /\ appState = "ERROR"
        /\ Len(scenes) = 1
        /\ selectedSceneId = scenes[1].id

\* C6: when a backend call of a submission fails (generateVideos or a status
\* poll rejected, the media fetch refused for the credential), appState becomes
\* ERROR and no scene is created from the submission.
C6_BackendFailureIsError ==
    [][\A r \in Reqs :
        (InFlight(r) /\ (\/ log'[r] = <<"rejected", "error">>
                         \/ (pc'[r] = "success" /\ Last(scenes').videoBlob = ErrorBody)))
        => (appState' = "ERROR" /\ scenes' = scenes)]_vars

\* C7: once an operation whose handle was not done is reported done with a uri,
\* the status checks made are the not-done answers plus one (three checks for
\* not-done, not-done, done), and the caller then appends one populated Scene.
C7_ChecksAreNotDonePlusOne ==
    /\ [](\A r \in Reqs :
            (pc[r] = "fetching" /\ "handle" \in Elems(log[r]))
            => Count(log[r], "check") = Count(log[r], "notdone") + 1)
    /\ [][\A r \in Reqs :
            (pc[r] = "fetching" /\ pc'[r] = "success")
            => /\ Len(scenes') = Len(scenes) + 1
               /\ SubSeq(scenes', 1, Len(scenes)) = scenes
               /\ Last(scenes').id = r
               /\ Last(scenes').videoObject = VideoOf(r)
               /\ Last(scenes').prompt = params[r].prompt
               /\ Last(scenes').prompt # <<>>]_vars

\* not-done, not-done, done: three status checks
C7_Witness ==
    \E r \in Reqs :
        /\ pc[r] = "fetching"
        /\ Count(log[r], "notdone") = 2
        /\ Count(log[r], "check") = 3

\* C8: every status check directly follows one full interval wait, and a wait
\* starts only on a not-done report: between the submission and the first
\* check, and between two checks, there is exactly one wait.
C8_WaitBeforeEveryCheck ==
    \A r \in Reqs :
        LET l == log[r] IN
        /\ \A i \in 1..Len(l) : l[i] = "check" => (i > 1 /\ l[i-1] = "wait")
        /\ \A i \in 1..Len(l) : l[i] = "wait" => (i > 1 /\ l[i-1] \in {"handle", "notdone"})
        /\ Count(l, "wait") = Count(l, "check")

C8_Witness == \E r \in Reqs : Count(log[r], "check") >= 2

\* C9: within a submission the order is submit, status checks until done, uri
\* extraction, fetch with the key, scene creation: a fetch follows a done report
\* with a uri, and a scene is appended only when a fetch is answered.
C9_LifecycleOrder ==
    /\ [](\A r \in Reqs :
            LET l == log[r] IN
            InFlight(r) =>
                /\ l[1] = "submit" /\ Count(l, "submit") = 1
                /\ \A i \in 1..Len(l) :
                    /\ l[i] = "check" => \A j \in 1..i : l[j] \notin {"done", "doneHandle", "uri", "fetch"}
                    /\ l[i] = "done" => l[i-1] = "check"
                    /\ l[i] = "uri" => l[i-1] \in {"done", "doneHandle"}
                    /\ l[i] = "fetch" => (l[i-1] = "uri" /\ i = Len(l))
                /\ (pc[r] = "fetching") = (Last(l) = "fetch"))
    /\ [][/\ \A r \in Reqs : (pc'[r] = "success" /\ pc[r] # "success") => pc[r] = "fetching"
          /\ scenes' # scenes /\ Len(scenes') >= Len(scenes)
             => \E r \in Reqs : /\ pc[r] = "fetching" /\ pc'[r] = "success"
                                /\ scenes' = Append(scenes, Last(scenes'))
                                /\ Last(scenes').id = r]_vars

\* an invocation has returned and its scene is in the list, selected
C9_Witness ==
    \E r \in Reqs : pc[r] = "success" /\ r \in SceneIds /\ selectedSceneId = r

\* C10: while every status check of an operation reports not-done the
\* invocation keeps polling and appState stays LOADING.
C10_PollingKeepsLoading ==
    \A r \in Reqs : pc[r] \in {"sleeping", "checking"} => appState = "LOADING"

\* C11: an invocation of handleGenerate makes at most one generateVideos
\* submission, whatever its outcome: the submission is made when the invocation
\* starts, and once it has failed or succeeded the invocation does nothing more.
C11_NoAutomaticRetry ==
    /\ [](\A r \in Reqs : Count(log[r], "submit") <= 1)
    /\ [][\A r \in Reqs :
            /\ (pc'[r] = "submitting" /\ pc[r] # "submitting")
               => pc[r] \in {"none", "keycheck"}
            /\ (sent'[r] # NoRequest /\ sent'[r] # sent[r])
               => pc[r] \in {"none", "keycheck"}
            /\ pc[r] \notin {"none", "keycheck"}
               => pc'[r] \notin {"none", "keycheck"}
            /\ pc[r] \in {"error", "success", "stopped"}
               => (pc'[r] = pc[r] /\ sent'[r] = NoRequest)]_vars

\* the only invocation so far has failed on a rejected call and nothing is in flight
C11_Witness ==
    /\ nInvoked = 1
    /\ pc[1] = "error"
    /\ log[1] = <<"rejected", "error">>
    /\ \A r \in Reqs : sent[r] = NoRequest

\* the place of the scene of invocation r in the timeline, 0 if it is not there
IndexOf(ss, r) ==
    IF \E i \in 1..Len(ss) : ss[i].id = r
    THEN CHOOSE i \in 1..Len(ss) : ss[i].id = r
    ELSE 0

\* the invocations whose scene was created and deleted
Deleted == {r \in Reqs : pc[r] = "success" /\ r \notin SceneIds}

\* C15: a deletion removes exactly the deleted scene; it sets selectedSceneId to
\* null when that scene was the selected one and leaves it unchanged otherwise.
C15_DeleteSceneEffect ==
    [][Len(scenes') < Len(scenes)
       => \E i \in 1..Len(scenes) :
            /\ scenes' = SubSeq(scenes, 1, i - 1) \o SubSeq(scenes, i + 1, Len(scenes))
            /\ selectedSceneId' = IF selectedSceneId = scenes[i].id
                                  THEN NoScene ELSE selectedSceneId]_vars

\* a scene other than the selected one was deleted: the selection is still there
C15_Witness ==
    /\ Deleted # {}
    /\ Len(scenes) = 1
    /\ selectedSceneId = scenes[1].id
    /\ appState = "SUCCESS"

\* C16: selectedSceneId is null or the id of a scene in the scene list.
C16_SelectionNeverDangles == selectedSceneId = NoScene \/ selectedSceneId \in SceneIds

\* the selected scene was deleted while another scene stays: nothing is selected
C16_Witness ==
    /\ Deleted # {}
    /\ Len(scenes) >= 1
    /\ selectedSceneId = NoScene

C20_NoForbiddenField ==
    \A r \in Reqs :
        sent[r] # NoRequest =>
            /\ params[r].mode = TEXT_TO_VIDEO
               => (~sent[r].image /\ sent[r].referenceImages = 0 /\ sent[r].video = NoVideo)
            /\ params[r].mode = FRAMES_TO_VIDEO
               => (sent[r].referenceImages = 0 /\ sent[r].video = NoVideo)
            /\ params[r].mode = REFERENCES_TO_VIDEO
               => (~sent[r].image /\ sent[r].video = NoVideo)
            /\ params[r].mode = EXTEND_VIDEO
               => (~sent[r].image /\ sent[r].referenceImages = 0)

\* the assets whose id is among the cast locks, as the bin lists them
LockedNow == SelectSeq(assets, LAMBDA a : a.id \in Elems(continuity.activeAssetIds))

\* the marks that end and join the sentences of a prompt
Separators == {". ", "."}
WithoutSeparators(s) == SelectSeq(s, LAMBDA t : t \notin Separators)

\* the style fragment and a space, if a style is selected
StylePart == IF selectedStyle # NoStyle THEN <<selectedStyle.promptInjection, " ">> ELSE <<>>
\* one "Character Reference: <asset.prompt>" per locked asset
CastPart ==
    [i \in 1..(2 * Len(LockedNow)) |->
        IF i % 2 = 1 THEN "Character Reference: " ELSE LockedNow[i \div 2].prompt]
\* "Lighting: <lock>", if a lighting lock is set
LightingPart ==
    IF continuity.lightingLock # NoLighting
    THEN <<"Lighting: ", continuity.lightingLock>> ELSE <<>>

\* a step in which handleSubmit has built another final prompt
Composed == prompt' # prompt \/ finalPrompt' # finalPrompt

\* C12: the final prompt is the style fragment and a space (if a style is
\* selected), the user text intact, one "Character Reference: <asset.prompt>"
\* sentence per locked asset, then the "Lighting: <lock>" sentence (if a lock is
\* set), in this order; with none of the three it is exactly the user text.
C12_CompositionOrder ==
    [][Composed =>
        /\ WithoutSeparators(finalPrompt') = StylePart \o prompt' \o CastPart \o LightingPart
        /\ SubSeq(finalPrompt', 1, Len(StylePart) + Len(prompt')) = StylePart \o prompt'
        /\ (selectedStyle = NoStyle /\ LockedNow = <<>> /\ continuity.lightingLock = NoLighting)
           => finalPrompt' = prompt']_vars

\* a prompt composed with a style, two locked assets and a lighting lock
C12_Witness ==
    /\ selectedStyle # NoStyle
    /\ Len(LockedNow) = 2
    /\ continuity.lightingLock # NoLighting
    /\ prompt # <<>>
    /\ WithoutSeparators(finalPrompt) = StylePart \o prompt \o CastPart \o LightingPart

\* the cast locks that name no asset of the bin
StaleIds == {id \in Elems(continuity.activeAssetIds) : \A i \in 1..Len(assets) : assets[i].id # id}

\* C13: the final prompt composed while the cast locks hold ids of no asset is
\* the one composed from the profile with those ids taken out.
C13_StaleIdsAreNoOps ==
    [][(Composed /\ StaleIds # {}) =>
        finalPrompt' = Compose(prompt', selectedStyle,
                               [continuity EXCEPT !.activeAssetIds =
                                   SelectSeq(@, LAMBDA id : id \notin StaleIds)],
                               assets)]_vars

\* a prompt composed from a stale lock and a lock on an asset of the bin
C13_Witness ==
    /\ StaleIds # {}
    /\ Len(LockedNow) = 1
    /\ prompt # <<>>
    /\ finalPrompt = prompt \o <<". ", "Character Reference: ", LockedNow[1].prompt, ".">>

\* C14: continuity.activeAssetIds holds only ids of assets in the asset list.
C14_LocksNameAssets == StaleIds = {}

\* C17: the step in which a generation succeeds leaves selectedAssetIds empty,
\* the step in which a generation fails leaves selectedAssetIds as it was.
C17_SelectionConsumedOnSuccess ==
    [][\A r \in Reqs :
        /\ (pc'[r] = "success" /\ pc[r] # "success") => selectedAssetIds' = <<>>
        /\ (pc'[r] = "error" /\ pc[r] # "error") => selectedAssetIds' = selectedAssetIds]_vars

\* a generation has failed and the assets selected for it are still selected,
\* their files prepared
C17_Witness ==
    /\ pc[1] = "error"
    /\ appState = "ERROR"
    /\ Len(selectedAssetIds) = 2
    /\ Len(preparedExternalAssets) = 2

C21_ReferencesUseFixedSettings ==
    (/\ call.fn = "generateVideo"
     /\ call.params.mode = REFERENCES_TO_VIDEO
     /\ call.params.referenceImages > 0)
    => /\ result.request.variant = "references"
       /\ result.request.referenceImages = call.params.referenceImages
       /\ result.settings = [model |-> VEO, resolution |-> "720p", aspectRatio |-> "16:9"]

\* a references request was built from parameters that hold the fast model,
\* the portrait ratio and 1080p
C21_Witness ==
    /\ call.fn = "generateVideo"
    /\ call.params.mode = REFERENCES_TO_VIDEO
    /\ call.params.referenceImages = 2
    /\ call.params.model = VEO_FAST
    /\ call.params.aspectRatio = "9:16"
    /\ call.params.resolution = "1080p"
    /\ result.request.variant = "references"

\* the pieces of a line of describedItems that name the zones
ZoneH(line) == line[5]
ZoneV(line) == line[7]

\* C25: the describer puts an item on the left exactly when x < 150, on the
\* right exactly when x > 300 and in the center otherwise, in the
\* background/top exactly when y < 150 and in the foreground/bottom otherwise;
\* (100,100), (350,400) and (200,200) fall as the examples say.
C25_ZonesByThreshold ==
    call.fn = "generateStoryboardDescription"
    => /\ Len(result.lines) = Len(call.items)
       /\ \A k \in 1..Len(call.items) :
            LET i == call.items[k]
                line == result.lines[k]
            IN  /\ ZoneH(line) \in {"on the left", "on the right", "in the center"}
                /\ ZoneH(line) = "on the left" <=> i.x < 150
                /\ ZoneH(line) = "on the right" <=> i.x > 300
                /\ ZoneV(line) \in {"in the background/top", "in the foreground/bottom"}
                /\ ZoneV(line) = "in the background/top" <=> i.y < 150
                /\ (i.x = 100 /\ i.y = 100)
                   => (ZoneH(line) = "on the left" /\ ZoneV(line) = "in the background/top")
                /\ (i.x = 350 /\ i.y = 400)
                   => (ZoneH(line) = "on the right" /\ ZoneV(line) = "in the foreground/bottom")
                /\ (i.x = 200 /\ i.y = 200)
                   => (ZoneH(line) = "in the center" /\ ZoneV(line) = "in the foreground/bottom")

\* an item on a threshold of both axes was described: center, foreground/bottom
C25_Witness ==
    /\ call.fn = "generateStoryboardDescription"
    /\ Len(call.items) = 1
    /\ call.items[1].x = 150
    /\ call.items[1].y = 150
    /\ ZoneH(result.lines[1]) = "in the center"
    /\ ZoneV(result.lines[1]) = "in the foreground/bottom"

\* a score has a title, a description, a bpm and a list of instruments
HasScoreShape(v) ==
    /\ v.json = "object"
    /\ v.title # ""
    /\ v.description # ""
    /\ v.bpm # ""
    /\ v.instruments.kind = "array"

\* C26: generateScoreMetadata and generateTransitionPrompts return the
\* documented fallback for a reply that is not parseable JSON, and what they
\* return always has the expected shape: a score, a list of strings.
C26_FallbackAndShape ==
    /\ call.fn = "generateScoreMetadata"
       => /\ JSONparse(call.text) = SyntaxError => result.value = DefaultScore(call.mood)
          /\ HasScoreShape(result.value)
    /\ call.fn = "generateTransitionPrompts"
       => /\ JSONparse(call.text) = SyntaxError => result.value = DefaultIdeas
          /\ result.value.kind = "array"

\* C27: when the key check reports that no key is selected, or throws,
\* handleGenerate opens the key dialog and returns: it sends no request and
\* leaves appState, scenes, selectedSceneId, externalPrompt and
\* initialFormValues as they were; it never makes a backend call afterwards.
C27_NoKeyStopsGeneration ==
    /\ [](\A r \in Reqs :
            (log[r] = <<"unselected">> \/ log[r] = <<"throws">>)
            => (pc[r] = "stopped" /\ sent[r] = NoRequest /\ showApiKeyDialog))
    /\ [][\A r \in Reqs :
            (pc[r] = "keycheck" /\ log'[r] \in {<<"unselected">>, <<"throws">>})
            => /\ showApiKeyDialog'
               /\ appState' = appState
               /\ scenes' = scenes
               /\ selectedSceneId' = selectedSceneId
               /\ externalPrompt' = externalPrompt
               /\ initialFormValues' = initialFormValues
               /\ sent' = sent]_vars

\* an invocation was stopped by a key check that threw, after another
\* invocation had put a scene on the timeline
C27_Witness ==
    \E r \in Reqs :
        /\ pc[r] = "stopped"
        /\ log[r] = <<"throws">>
        /\ showApiKeyDialog
        /\ appState = "SUCCESS"
        /\ Len(scenes) = 1

\* C28: appState is LOADING whenever a generation request is in flight, and
\* SUCCESS or ERROR only when none is.
C28_LoadingWhileInFlight ==
    /\ (\E r \in Reqs : InFlight(r)) => appState = "LOADING"
    /\ appState \in {"SUCCESS", "ERROR"} => \A r \in Reqs : ~InFlight(r)

\* the files of the currently selected assets, as prepare() would collect them
SelectedFiles ==
    LET selectedAssets == SelectSeq(assets, LAMBDA a : Includes(selectedAssetIds, a.id))
    IN  [i \in 1..Len(selectedAssets) |-> selectedAssets[i].id]

\* C29: once no preparation is pending, preparedExternalAssets holds exactly
\* the files of the currently selected assets; it is empty when no asset is
\* selected.
C29_PreparedFollowsSelection ==
    preparing = {} => preparedExternalAssets = SelectedFiles

\* the sends the backend has replied to with a text
Answered == {s \in Sends : reply[s] \notin {NoReply, Rejected}}

\* an Action: a known type with the payload of that type
WellFormed(a) ==
    /\ a.json = "object"
    /\ a.type \in ActionTypes
    /\ a.hasPayload
    /\ a.type \in {"GENERATE_ASSET", "UPDATE_PROMPT"} => a.prompt # ""
    /\ a.type = "SWITCH_VIEW" => a.view # ""
    /\ a.type = "CHAT_RESPONSE" => a.text # ""

\* C22: for a reply text that is not parseable as JSON chatWithDirector returns
\* the CHAT_RESPONSE action with the fixed fallback text.
C22_UnparseableGivesFallback ==
    \A s \in Answered :
        JSONparse(reply[s]) = SyntaxError => action[s] = ParseErrorAction

\* C23: for every reply text chatWithDirector returns a well-formed Action.
C23_AlwaysWellFormedAction ==
    \A s \in Answered : WellFormed(action[s])

C30_OneReplyPerSend ==
    [][\A s \in Sends :
        /\ (sendPc[s] = "none" /\ sendPc'[s] # "none")
           => /\ Trim(input) # ""
              /\ messages' = Append(messages, [role |-> "user", text |-> <<input>>])
        /\ (sendPc[s] = "waiting" /\ sendPc'[s] # "waiting")
           => /\ Len(messages') = Len(messages) + 1
              /\ SubSeq(messages', 1, Len(messages)) = messages
              /\ Last(messages').role = "ai"
              /\ ~isThinking'
              /\ (reply'[s] # Rejected
                  /\ action'[s].type \in {"GENERATE_ASSET", "UPDATE_PROMPT", "SWITCH_VIEW"})
                 => Count(sendLog'[s], "onAction") = 1
              /\ (reply'[s] = Rejected \/ action'[s].type = "CHAT_RESPONSE")
                 => Count(sendLog'[s], "onAction") = 0]_vars

====
